---- MODULE Spec2Model ----
(***************************************************************************)
(* A model of the retrieval-augmented-generation service: the chunker      *)
(* (core/convert_to_chunks.py), the ingestion handler (api/documents.py),  *)
(* the retrieval handler (api/query.py), the health handler               *)
(* (api/health.py) and the Qdrant adapter (vector_db/qdrant.py).           *)
(*                                                                         *)
(* A text is a sequence of one-character strings.  A uuid4() value is the  *)
(* number of the draw that produced it, so every draw is fresh.            *)
(*                                                                         *)
(* SpecChunk follows one call of the chunker, Spec the upload calls,       *)
(* SpecQuery one query, SpecStore direct calls of the adapter's store      *)
(* method, SpecEnsure the clients' calls that ensure the collection,       *)
(* SpecHealth the health handler among uploads and a query.                *)
(***************************************************************************)
EXTENDS Integers, Sequences, FiniteSets, TLC

VARIABLES
    \* ---- convert_text_into_chunks, one call, one loop iteration per step
    cpc,        \* "call" | "loop" | "done" | "diverged"
    ctext,      \* the text argument
    norm,       \* text after line 22 (normalised)
    chunk_len,  \* the chunk_len argument
    overlap,    \* the overlap argument
    start,      \* the loop variable start
    chunks,     \* the list chunks
    windows,    \* history: the <<start, end>> pair of each chunk appended
    seen,       \* history: the values start had at the loop head
    \* ---- the Qdrant collection and the uuid generator, shared by all calls
    store,      \* the points of the collection
    uuids,      \* how many uuid4() values have been drawn; the next is uuids + 1
    \* ---- upload_document, one call per upload u
    ipc,        \* u's position: "idle" | "embed" | "store" | "done"
    file,       \* the uploaded file
    pdf_text,   \* the local pdf_text
    document_id,\* the local document_id, 0 while none is generated
    up_chunks,  \* the local chunks
    embeddings, \* the local embeddings
    response,   \* what the call answered
    did,        \* history: the collaborators the call has used
    fault,      \* history: how a collaborator failed in the call, or "none"
    \* ---- process_query, one call
    qpc,        \* "idle" | "embed" | "search" | "done"
    query,      \* request.query
    query_vector, \* the local query_vector of retrieve_document_embeddings
    hits,       \* the local hits of retrieve_document_embeddings
    context,    \* what retrieve_document_embeddings returned
    qresponse,  \* what the call answered
    qdid,       \* history: the collaborators the call has used
    qfault,     \* history: how a collaborator failed in the call, or "none"
    \* ---- store_document_embeddings called on what generate_embedding returned
    spc,        \* "idle" | "done"
    s_args,     \* the arguments of the last call
    s_result,   \* what the last call raised and returned
    s_before,   \* history: the collection before the last call
    s_calls,    \* how many calls were made
    \* ---- Qdrant_VDB._create_collection_if_not_exists, one call per client
    server_collections, \* the names of the collections the Qdrant server holds
    epc,        \* the client's position: "idle" | "checked"
    collection_names,   \* the local collection_names of line 50
    e_result,   \* how the client's last call ended, "none" before the first
    e_calls,    \* how many calls the client has made
    created,    \* history: how many create_collection requests were accepted
    \* ---- get_health
    hresponse,  \* what the last GET on /health answered
    h_calls     \* how many GETs were answered

chunkVars == <<cpc, ctext, norm, chunk_len, overlap, start, chunks, windows, seen>>

storeVars == <<store, uuids>>

ingestVars == <<ipc, file, pdf_text, document_id, up_chunks, embeddings, response, did, fault>>

queryVars == <<qpc, query, query_vector, hits, context, qresponse, qdid, qfault>>

storeCallVars == <<spc, s_args, s_result, s_before, s_calls>>

ensureVars == <<server_collections, epc, collection_names, e_result, e_calls, created>>

healthVars == <<hresponse, h_calls>>

vars == <<chunkVars, storeVars, ingestVars, queryVars, storeCallVars, ensureVars,
          healthVars>>

(***************************************************************************)
(* Bounds of the model.                                                    *)
(***************************************************************************)
MaxTextLen == 7
MaxChunkLen == 6
\* The number of upload calls in flight together.
NumUploads == 2
\* chunk_len = 500 and overlap = 100, the defaults the upload handler chunks
\* with, scaled to the length of the model's documents.
DefaultChunkLen == 5
DefaultOverlap == 1
\* The number of documents uploaded before the query is made.
MaxStoredDocs == 2
\* The number of direct calls of store_document_embeddings.
MaxStoreCalls == 2
\* The number of times one client calls _create_collection_if_not_exists.
MaxEnsureCalls == 2
\* The number of GETs on /health.
MaxHealthCalls == 2
\* limit=5 of query_points.
QueryLimit == 5

\* The characters texts are drawn from: a letter, the sentence period, a blank.
Alphabet == {"a", ".", " "}

(***************************************************************************)
(* Python's str operations, on sequences of characters.                    *)
(***************************************************************************)
\* What \s matches and what str.strip() removes.
IsSpace(c) == c \in {" ", "\n", "\t"}

RECURSIVE LStrip(_)
LStrip(s) ==
    IF s # <<>> /\ IsSpace(s[1]) THEN LStrip(Tail(s)) ELSE s

RECURSIVE RStrip(_)
RStrip(s) ==
    IF s # <<>> /\ IsSpace(s[Len(s)]) THEN RStrip(SubSeq(s, 1, Len(s) - 1)) ELSE s

Strip(s) == LStrip(RStrip(s))

\* re.sub(r'\s+', ' ', s): every maximal run of whitespace becomes one blank.
RECURSIVE CollapseSpaces(_)
CollapseSpaces(s) ==
    IF s = <<>> THEN <<>>
    ELSE IF IsSpace(s[1])
         THEN IF Len(s) > 1 /\ IsSpace(s[2])
              THEN CollapseSpaces(Tail(s))
              ELSE <<" ">> \o CollapseSpaces(Tail(s))
         ELSE <<s[1]>> \o CollapseSpaces(Tail(s))

\* A slice bound as Python adjusts it: negative counts from the end, then
\* clamped into 0..len.
SliceIndex(i, n) ==
    IF i < 0 THEN (IF i + n < 0 THEN 0 ELSE i + n)
    ELSE (IF i > n THEN n ELSE i)

\* s[i:j]
Slice(s, i, j) ==
    SubSeq(s, SliceIndex(i, Len(s)) + 1, SliceIndex(j, Len(s)))

\* s.rfind(c, i, j): the highest 0-based index of c in s[i:j], or -1.
RFind(s, c, i, j) ==
    LET lo == SliceIndex(i, Len(s))
        hi == SliceIndex(j, Len(s))
        at == {k \in lo..(hi - 1) : s[k + 1] = c}
    IN  IF at = {} THEN -1 ELSE CHOOSE k \in at : \A m \in at : m <= k

(***************************************************************************)
(* convert_text_into_chunks                                                *)
(***************************************************************************)
\* Line 22 without the re.sub: runs of whitespace stay.
NormalizeText_NoCollapse(text) == Strip(text)

\* Line 22.
NormalizeText(text) == Strip(CollapseSpaces(text))

\* Lines 33-39 without the test of line 38 that the period lies past the
\* middle of the window.
WindowEnd_AnyPeriod(text, st, clen) ==
    LET end == st + clen
        next_period == RFind(text, ".", st, end)
    IN  IF end < Len(text) /\ next_period # -1
        THEN next_period + 1
        ELSE end

\* Lines 33-39: where the window that starts at st is cut.
WindowEnd(text, st, clen) ==
    LET end == st + clen
        next_period == RFind(text, ".", st, end)
    IN  IF end < Len(text) /\ next_period # -1 /\ 2 * next_period > 2 * st + clen
        THEN next_period + 1
        ELSE end

\* Line 41: the chunk appended for the window <<st, end>>.
ChunkOf(text, st, end) == Strip(Slice(text, st, end))

\* Line 42 with the sign of the overlap slipped.
NextStart_Forward(end, ovl) == end + ovl

\* Line 42: the next value of start.
NextStart(end, ovl) == end - ovl

\* The whole call as a function, for the callers that use its result: the
\* loop of lines 32-42 from start = st on.
RECURSIVE ChunkLoop(_, _, _, _)
ChunkLoop(text, st, clen, ovl) ==
    IF st >= Len(text) THEN <<>>
    ELSE LET end == WindowEnd(text, st, clen)
         IN  <<ChunkOf(text, st, end)>> \o ChunkLoop(text, NextStart(end, ovl), clen, ovl)

ConvertTextIntoChunks(text, clen, ovl) ==
    LET t == NormalizeText(text)
    IN  IF Len(t) <= clen THEN <<t>> ELSE ChunkLoop(t, 0, clen, ovl)

\* convert_text_into_chunks is called.  Lines 22-30.
ChunkCall ==
    /\ cpc = "call"
    /\ norm' = NormalizeText(ctext)
    /\ IF Len(norm') <= chunk_len
       THEN /\ chunks' = <<norm'>>
            /\ windows' = <<<<0, Len(norm')>>>>
            /\ cpc' = "done"
       ELSE /\ chunks' = <<>>
            /\ windows' = <<>>
            /\ cpc' = "loop"
    /\ start' = 0
    /\ seen' = {}
    /\ UNCHANGED <<ctext, chunk_len, overlap>>
    /\ UNCHANGED <<storeVars, ingestVars, queryVars, storeCallVars, ensureVars, healthVars>>

\* One iteration of the while loop, lines 32-42.  start and the text decide
\* everything the body does, so an iteration that ends on a value start had
\* before at the loop head repeats for ever: the call never returns
\* ("diverged").
ChunkStep ==
    /\ cpc = "loop"
    /\ start < Len(norm)
    /\ LET end == WindowEnd(norm, start, chunk_len)
           nxt == NextStart(end, overlap)
       IN  /\ chunks' = Append(chunks, ChunkOf(norm, start, end))
           /\ windows' = Append(windows, <<start, end>>)
           /\ start' = nxt
           /\ seen' = seen \cup {start}
           /\ cpc' = IF nxt \in seen' THEN "diverged" ELSE "loop"
    /\ UNCHANGED <<ctext, norm, chunk_len, overlap>>
    /\ UNCHANGED <<storeVars, ingestVars, queryVars, storeCallVars, ensureVars, healthVars>>

\* The loop condition fails: lines 44-45.
ChunkReturn ==
    /\ cpc = "loop"
    /\ start >= Len(norm)
    /\ cpc' = "done"
    /\ UNCHANGED <<ctext, norm, chunk_len, overlap, start, chunks, windows, seen>>
    /\ UNCHANGED <<storeVars, ingestVars, queryVars, storeCallVars, ensureVars, healthVars>>

RECURSIVE TextsOfLen(_)
TextsOfLen(n) ==
    IF n = 0 THEN {<<>>}
    ELSE {Append(t, c) : t \in TextsOfLen(n - 1), c \in Alphabet}

Texts == UNION {TextsOfLen(n) : n \in 0..MaxTextLen}

\* No call of the chunker is being followed.
ChunkIdle ==
    /\ cpc = "done"
    /\ ctext = <<>>
    /\ chunk_len = DefaultChunkLen
    /\ overlap = DefaultOverlap
    /\ norm = <<>>
    /\ start = 0
    /\ chunks = <<>>
    /\ windows = <<>>
    /\ seen = {}

(***************************************************************************)
(* generate_embedding                                                      *)
(***************************************************************************)
\* The rows model.encode can return for one text.  The last has a
\* component that is exactly zero.
Vectors == {<<1, 2>>, <<0, 1>>}

\* What generate_embedding returns when the model does not fail: the list []
\* for no chunks (lines 15-17), else the array model.encode returned, `rows`.
GenerateEmbedding(text_chunks, rows) ==
    IF text_chunks = <<>>
    THEN [kind |-> "list", rows |-> <<>>]
    ELSE [kind |-> "ndarray", rows |-> rows]

NoEmbeddings == [kind |-> "none", rows |-> <<>>]

\* The arrays model.encode can return for a batch of n texts.
Batches(n) == [1..n -> Vectors]

(***************************************************************************)
(* Qdrant_VDB                                                              *)
(***************************************************************************)
\* numpy's ndarray.all(): every element is non-zero.
NdAll(rows) ==
    \A i \in 1..Len(rows) : \A j \in 1..Len(rows[i]) : rows[i][j] # 0

\* Lines 94-101 with the chunk index counted from 1.
Payload_FromOne(doc, i, chunk_texts, extra_payload) ==
    LET base == ("document_id" :> doc) @@ ("chunk_index" :> i + 1)
        text == IF chunk_texts # <<>> /\ i < Len(chunk_texts)
                THEN base @@ ("text" :> chunk_texts[i + 1])
                ELSE base
    IN  extra_payload @@ text

\* Lines 94-101: the payload of the i-th embedding, i counted from 0 as
\* enumerate does.  chunk_texts and extra_payload are only tested for truth,
\* so None is the empty list and the empty dict.
Payload(doc, i, chunk_texts, extra_payload) ==
    LET base == ("document_id" :> doc) @@ ("chunk_index" :> i)
        text == IF chunk_texts # <<>> /\ i < Len(chunk_texts)
                THEN base @@ ("text" :> chunk_texts[i + 1])
                ELSE base
    IN  extra_payload @@ text

\* An empty dict, and extra_payload = None.
NoExtra == <<>>

\* Lines 89 and 105-112: a fresh uuid4 for each embedding (the first is
\* first_id), zipped with the embeddings and the payloads.
Points(first_id, doc, rows, chunk_texts, extra_payload) ==
    {[id |-> first_id + i,
      vector |-> rows[i + 1],
      payload |-> Payload(doc, i, chunk_texts, extra_payload)] : i \in 0..(Len(rows) - 1)}

\* client.upsert: the points replace those of the same id and are added.
Upsert(points, new) ==
    {r \in points : \A n \in new : n.id # r.id} \cup new

\* How client.upsert can end: the points are stored; the server rejects
\* the request (UnexpectedResponse) and stores nothing; the points are stored
\* and the answer is lost on the way back (ResponseHandlingException).
UpsertOutcomes == {"ok", "rejected", "lost"}

\* Lines 114-122 with the failure of the upsert swallowed.
StoreDocumentEmbeddings_Swallow(points, next_id, doc, emb, chunk_texts, extra_payload, outcome) ==
    IF emb.kind # "ndarray"
    THEN [raised |-> "AttributeError", value |-> <<>>, store |-> points, uuids |-> next_id,
          upsert |-> FALSE]
    ELSE IF ~NdAll(emb.rows)
    THEN [raised |-> "none", value |-> <<>>, store |-> points, uuids |-> next_id,
          upsert |-> FALSE]
    ELSE LET n == Len(emb.rows)
             new == Points(next_id + 1, doc, emb.rows, chunk_texts, extra_payload)
         IN  [raised |-> "none",
              value |-> IF outcome = "ok" THEN [i \in 1..n |-> next_id + i] ELSE <<>>,
              store |-> IF outcome = "rejected" THEN points ELSE Upsert(points, new),
              uuids |-> next_id + n,
              upsert |-> TRUE]

\* store_document_embeddings, lines 85-122, called on the collection `points`
\* with next_id uuids drawn so far, the upsert ending as `outcome`.  The
\* result: the exception raised ("none" when it returns), the value returned,
\* the collection and the uuid count afterwards, whether upsert was called.
StoreDocumentEmbeddings(points, next_id, doc, emb, chunk_texts, extra_payload, outcome) ==
    IF emb.kind # "ndarray"
    THEN \* line 85: a list has no attribute all
         [raised |-> "AttributeError", value |-> <<>>, store |-> points, uuids |-> next_id,
          upsert |-> FALSE]
    ELSE IF ~NdAll(emb.rows)
    THEN \* lines 85-86
         [raised |-> "none", value |-> <<>>, store |-> points, uuids |-> next_id,
          upsert |-> FALSE]
    ELSE LET n == Len(emb.rows)
             new == Points(next_id + 1, doc, emb.rows, chunk_texts, extra_payload)
         IN  [raised |-> CASE outcome = "ok" -> "none"
                           [] outcome = "rejected" -> "Exception"
                           [] outcome = "lost" -> "ResponseHandlingException",
              value |-> IF outcome = "ok" THEN [i \in 1..n |-> next_id + i] ELSE <<>>,
              store |-> IF outcome = "rejected" THEN points ELSE Upsert(points, new),
              uuids |-> next_id + n,
              upsert |-> TRUE]

StoreEmpty ==
    /\ store = {}
    /\ uuids = 0

(***************************************************************************)
(* extract_text_from_pdf                                                   *)
(***************************************************************************)
\* Lines 33-37: the text of the pages, each non-empty one followed by "\n".
RECURSIVE PagesText(_)
PagesText(pages) ==
    IF pages = <<>> THEN <<>>
    ELSE (IF Head(pages) # <<>> THEN Head(pages) \o <<"\n">> ELSE <<>>)
             \o PagesText(Tail(pages))

\* extract_text_from_pdf: "" when fitz cannot open or read the file (lines
\* 42-47), else the stripped text of the pages (line 49).
ExtractTextFromPdf(f) ==
    IF ~f.readable THEN <<>> ELSE Strip(PagesText(f.pages))

(***************************************************************************)
(* upload_document                                                         *)
(***************************************************************************)
Uploads == 1..NumUploads

\* str.lower(), on the letters the file names are written in.
LowerChar(c) ==
    CASE c = "P" -> "p"
      [] c = "D" -> "d"
      [] c = "F" -> "f"
      [] OTHER -> c

Lower(s) == [i \in 1..Len(s) |-> LowerChar(s[i])]

EndsWith(s, suffix) ==
    /\ Len(s) >= Len(suffix)
    /\ SubSeq(s, Len(s) - Len(suffix) + 1, Len(s)) = suffix

\* Line 27.
IsPdfName(filename) == EndsWith(Lower(filename), <<".", "p", "d", "f">>)

\* The uploads: a file that is no PDF by name, a PDF fitz cannot read, a PDF
\* whose pages hold whitespace only, a PDF of one chunk (with an empty page),
\* a PDF of several chunks.
UploadFiles ==
    {[filename |-> <<"a", ".", "t", "x", "t">>, readable |-> TRUE,
      pages |-> <<<<"a", "b">>>>],
     [filename |-> <<"a", ".", "p", "d", "f">>, readable |-> FALSE,
      pages |-> <<>>],
     [filename |-> <<"a", ".", "P", "D", "F">>, readable |-> TRUE,
      pages |-> <<<<" ">>, <<"\n", "\t">>>>],
     [filename |-> <<"a", ".", "p", "d", "f">>, readable |-> TRUE,
      pages |-> <<<<"a", "b", " ">>, <<>>>>],
     [filename |-> <<"a", ".", "P", "d", "f">>, readable |-> TRUE,
      pages |-> <<<<"a", "b", ".">>, <<"c", "d", ".", "e", "f", "g">>>>]}

NoFile == [filename |-> <<>>, readable |-> FALSE, pages |-> <<>>]

Pending == [status |-> "pending"]

\* An HTTPException.
HttpError(code, detail) ==
    [status |-> "error", status_code |-> code, detail |-> detail]

\* Lines 57-62.
UploadSuccess(doc, n) ==
    [status |-> "success", message |-> "Document processed and stored successfully",
     document_id |-> doc, chunks_count |-> n]

IngestIdle ==
    /\ ipc = [u \in Uploads |-> "idle"]
    /\ file = [u \in Uploads |-> NoFile]
    /\ pdf_text = [u \in Uploads |-> <<>>]
    /\ document_id = [u \in Uploads |-> 0]
    /\ up_chunks = [u \in Uploads |-> <<>>]
    /\ embeddings = [u \in Uploads |-> NoEmbeddings]
    /\ response = [u \in Uploads |-> Pending]
    /\ did = [u \in Uploads |-> {}]
    /\ fault = [u \in Uploads |-> "none"]

\* Line 35 with the check of the extracted text left out.
NoContent_Never(text) == FALSE

\* Line 35: not pdf_text.strip()
NoContent(text) == Strip(text) = <<>>

\* upload_document from the request to its call of generate_embedding,
\* lines 25-47.
UploadDocument(u) ==
    /\ ipc[u] = "idle"
    /\ \E f \in UploadFiles :
        /\ file' = [file EXCEPT ![u] = f]
        /\ IF ~IsPdfName(f.filename)
           THEN /\ response' = [response EXCEPT
                       ![u] = HttpError(400, "Only PDF files are supported")]
                /\ ipc' = [ipc EXCEPT ![u] = "done"]
                /\ UNCHANGED <<pdf_text, document_id, up_chunks, did, uuids>>
           ELSE LET text == ExtractTextFromPdf(f)
                IN  /\ pdf_text' = [pdf_text EXCEPT ![u] = text]
                    /\ IF NoContent(text)
                       THEN /\ response' = [response EXCEPT
                                   ![u] = HttpError(400, "Could not extract text from PDF")]
                            /\ ipc' = [ipc EXCEPT ![u] = "done"]
                            /\ did' = [did EXCEPT ![u] = {"extract"}]
                            /\ UNCHANGED <<document_id, up_chunks, uuids>>
                       ELSE /\ document_id' = [document_id EXCEPT ![u] = uuids + 1]
                            /\ uuids' = uuids + 1
                            /\ up_chunks' = [up_chunks EXCEPT ![u] =
                                   ConvertTextIntoChunks(text, DefaultChunkLen, DefaultOverlap)]
                            /\ did' = [did EXCEPT ![u] = {"extract", "uuid", "chunk"}]
                            /\ ipc' = [ipc EXCEPT ![u] = "embed"]
                            /\ UNCHANGED response
    /\ UNCHANGED <<store, embeddings, fault>>
    /\ UNCHANGED <<chunkVars, queryVars, storeCallVars, ensureVars, healthVars>>

\* generate_embedding returns or raises, line 47; what it raises ends the
\* call in the handler of lines 66-68.
UploadEmbed(u) ==
    /\ ipc[u] = "embed"
    /\ did' = [did EXCEPT ![u] = @ \cup {"embed"}]
    /\ \/ \E rows \in Batches(Len(up_chunks[u])) :
            /\ embeddings' = [embeddings EXCEPT ![u] = GenerateEmbedding(up_chunks[u], rows)]
            /\ ipc' = [ipc EXCEPT ![u] = "store"]
            /\ UNCHANGED <<response, fault>>
       \/ /\ fault' = [fault EXCEPT ![u] = "embed_failed"]
          /\ response' = [response EXCEPT
                 ![u] = HttpError(500, "Error processing document")]
          /\ ipc' = [ipc EXCEPT ![u] = "done"]
          /\ UNCHANGED embeddings
    /\ UNCHANGED <<file, pdf_text, document_id, up_chunks>>
    /\ UNCHANGED <<storeVars, chunkVars, queryVars, storeCallVars, ensureVars, healthVars>>

\* store_embedding_vector is called and the call answers, lines 50-68.
UploadStore(u) ==
    /\ ipc[u] = "store"
    /\ did' = [did EXCEPT ![u] = @ \cup {"store"}]
    /\ \E outcome \in UpsertOutcomes :
        LET r == StoreDocumentEmbeddings(store, uuids, document_id[u], embeddings[u],
                                         up_chunks[u], NoExtra, outcome)
        IN  /\ store' = r.store
            /\ uuids' = r.uuids
            /\ fault' = [fault EXCEPT ![u] =
                   IF r.upsert /\ outcome # "ok" THEN outcome ELSE "none"]
            /\ response' = [response EXCEPT ![u] =
                   IF r.raised = "none"
                   THEN UploadSuccess(document_id[u], Len(up_chunks[u]))
                   ELSE HttpError(500, "Error processing document")]
    /\ ipc' = [ipc EXCEPT ![u] = "done"]
    /\ UNCHANGED <<file, pdf_text, document_id, up_chunks, embeddings>>
    /\ UNCHANGED <<chunkVars, queryVars, storeCallVars, ensureVars, healthVars>>

(***************************************************************************)
(* Qdrant_VDB.retrieve_document_embeddings and extract_text_chunk          *)
(***************************************************************************)
\* sorted(..., key=...) inserts stably: x goes after every element whose key
\* is not greater.
RECURSIVE InsertByChunkIndex(_, _)
InsertByChunkIndex(sorted, x) ==
    IF sorted = <<>> THEN <<x>>
    ELSE IF sorted[Len(sorted)].chunk_index <= x.chunk_index
         THEN Append(sorted, x)
         ELSE Append(InsertByChunkIndex(SubSeq(sorted, 1, Len(sorted) - 1), x),
                     sorted[Len(sorted)])

RECURSIVE SortedSoFar(_, _)
SortedSoFar(payloads, n) ==
    IF n = 0 THEN <<>>
    ELSE InsertByChunkIndex(SortedSoFar(payloads, n - 1), payloads[n])

\* Lines 181-184 with the sort left out.
SortedByChunkIndex_Unsorted(payloads) == payloads

\* Lines 181-184: sorted(payloads, key=lambda x: x['chunk_index'])
SortedByChunkIndex(payloads) == SortedSoFar(payloads, Len(payloads))

\* Lines 186-189: the texts of the payloads that have one, each followed by
\* "\n".
RECURSIVE ConcatLines(_)
ConcatLines(payloads) ==
    IF payloads = <<>> THEN <<>>
    ELSE (IF "text" \in DOMAIN Head(payloads)
          THEN Head(payloads).text \o <<"\n">>
          ELSE <<>>) \o ConcatLines(Tail(payloads))

\* extract_text_chunk, lines 175-198.  A payload without chunk_index makes
\* the sort raise KeyError, which line 196 turns into "".
ExtractTextChunk(h) ==
    IF h = <<>> THEN <<>>
    ELSE LET payloads == [i \in 1..Len(h) |-> h[i].payload]
         IN  IF \E i \in 1..Len(payloads) : "chunk_index" \notin DOMAIN payloads[i]
             THEN <<>>
             ELSE RStrip(ConcatLines(SortedByChunkIndex(payloads)))

\* The sequences of k different elements of S.
RECURSIVE Arrangements(_, _)
Arrangements(S, k) ==
    IF k = 0 THEN {<<>>}
    ELSE UNION {{<<x>> \o t : t \in Arrangements(S \ {x}, k - 1)} : x \in S}

Min(a, b) == IF a <= b THEN a ELSE b

\* client.query_points(limit=...): the `limit` points nearest to the query
\* vector, nearest first, as scored points with their payloads.  The
\* embeddings being the model's, any points in any order can be the nearest.
QueryPoints(points, limit) ==
    Arrangements({[id |-> r.id, payload |-> r.payload] : r \in points},
                 Min(limit, Cardinality(points)))

\* The types of value lines 149-155 tell apart.
ResultKinds == {"QueryResponse", "list", "other"}

\* Lines 149-155.
HitsOf(kind, points) ==
    IF kind \in {"QueryResponse", "list"} THEN points ELSE <<>>

\* Lines 160-162 with the exception raised again.
RetrieveFailed_Raise == [raised |-> "Exception", value |-> <<>>]

\* Lines 160-162: what retrieve_document_embeddings does with an exception
\* of generate_embedding or query_points.
RetrieveFailed == [raised |-> "none", value |-> <<>>]

(***************************************************************************)
(* process_query                                                           *)
(***************************************************************************)
Queries == {<<>>, <<" ", "\n">>, <<"a", "b">>}

\* Line 29 without the strip.
EmptyQuery_NoStrip(q) == q = <<>>

\* Line 29: not request.query.strip()
EmptyQuery(q) == Strip(q) = <<>>

\* Lines 40-45 and 49-51: the answer to what execute_query returned or
\* raised.
QueryAnswer(r) ==
    IF r.raised = "none"
    THEN [status |-> "success", message |-> "Query processed successfully",
          context |-> r.value]
    ELSE HttpError(500, "Error processing query")

QueryIdle ==
    /\ qpc = "idle"
    /\ query = <<>>
    /\ query_vector = <<>>
    /\ hits = <<>>
    /\ context = <<>>
    /\ qresponse = Pending
    /\ qdid = {}
    /\ qfault = "none"

\* process_query from the request to the call of generate_embedding:
\* query.py lines 25-38, qdrant.py line 138.
ProcessQuery ==
    /\ qpc = "idle"
    /\ \E q \in Queries :
        /\ query' = q
        /\ IF EmptyQuery(q)
           THEN /\ qresponse' = HttpError(400, "Query cannot be empty")
                /\ qpc' = "done"
           ELSE /\ qpc' = "embed"
                /\ UNCHANGED qresponse
    /\ UNCHANGED <<query_vector, hits, context, qdid, qfault>>
    /\ UNCHANGED <<chunkVars, storeVars, ingestVars, storeCallVars, ensureVars, healthVars>>

\* generate_embedding([user_query]) returns or raises, line 138.
QueryEmbed ==
    /\ qpc = "embed"
    /\ qdid' = qdid \cup {"embed"}
    /\ \/ \E rows \in Batches(1) :
            /\ query_vector' = GenerateEmbedding(<<query>>, rows).rows[1]
            /\ qpc' = "search"
            /\ UNCHANGED <<context, qresponse, qfault>>
       \/ /\ qfault' = "embed_failed"
          /\ context' = RetrieveFailed.value
          /\ qresponse' = QueryAnswer(RetrieveFailed)
          /\ qpc' = "done"
          /\ UNCHANGED query_vector
    /\ UNCHANGED <<query, hits>>
    /\ UNCHANGED <<chunkVars, storeVars, ingestVars, storeCallVars, ensureVars, healthVars>>

\* client.query_points returns or raises and the call answers: qdrant.py
\* lines 142-162, query.py lines 40-51.
QuerySearch ==
    /\ qpc = "search"
    /\ qdid' = qdid \cup {"search"}
    /\ \/ \E kind \in ResultKinds : \E points \in QueryPoints(store, QueryLimit) :
            /\ hits' = HitsOf(kind, points)
            /\ context' = ExtractTextChunk(hits')
            /\ qresponse' = QueryAnswer([raised |-> "none", value |-> context'])
            /\ UNCHANGED qfault
       \/ /\ qfault' = "search_failed"
          /\ context' = RetrieveFailed.value
          /\ qresponse' = QueryAnswer(RetrieveFailed)
          /\ UNCHANGED hits
    /\ qpc' = "done"
    /\ UNCHANGED <<query, query_vector>>
    /\ UNCHANGED <<chunkVars, storeVars, ingestVars, storeCallVars, ensureVars, healthVars>>

\* The uploads that end with their chunks stored.
StorableFiles == {f \in UploadFiles : IsPdfName(f.filename) /\ ~NoContent(ExtractTextFromPdf(f))}

\* The collection and the uuid count after the uploads of `files`, one after
\* the other, each embedded without a zero component and stored.
RECURSIVE StoreAfterUploads(_)
StoreAfterUploads(files) ==
    IF files = <<>> THEN [store |-> {}, uuids |-> 0]
    ELSE LET n == Len(files)
             before == StoreAfterUploads(SubSeq(files, 1, n - 1))
             texts == ConvertTextIntoChunks(ExtractTextFromPdf(files[n]), DefaultChunkLen,
                                            DefaultOverlap)
             emb == GenerateEmbedding(texts, [i \in 1..Len(texts) |-> <<1, 2>>])
             r == StoreDocumentEmbeddings(before.store, before.uuids + 1, before.uuids + 1,
                                          emb, texts, NoExtra, "ok")
         IN  [store |-> r.store, uuids |-> r.uuids]

(***************************************************************************)
(* store_document_embeddings, called directly                              *)
(***************************************************************************)
\* The chunk lists the caller embeds.
ChunkLists == {<<>>, <<<<"a", "b">>>>, <<<<"a", "b">>, <<"c">>>>}

\* The extra_payload arguments: None and a dict of one key.
ExtraPayloads == {NoExtra, "source" :> "upload"}

NoArgs == [document_id |-> 0, embeddings |-> NoEmbeddings, chunk_texts |-> <<>>,
           extra_payload |-> NoExtra]

NoResult == [raised |-> "none", value |-> <<>>]

StoreCallIdle ==
    /\ spc = "idle"
    /\ s_args = NoArgs
    /\ s_result = NoResult
    /\ s_before = {}
    /\ s_calls = 0

\* generate_embedding(texts) returns and store_document_embeddings is called
\* on it, with the texts, with a part of them or with no chunk_texts.
StoreCall ==
    /\ spc = "idle"
    /\ s_calls < MaxStoreCalls
    /\ \E texts \in ChunkLists : \E rows \in Batches(Len(texts)) :
       \E k \in 0..Len(texts) : \E extra \in ExtraPayloads :
       \E outcome \in UpsertOutcomes :
          LET doc == uuids + 1
              emb == GenerateEmbedding(texts, rows)
              r == StoreDocumentEmbeddings(store, uuids + 1, doc, emb,
                                           SubSeq(texts, 1, k), extra, outcome)
          IN  /\ s_args' = [document_id |-> doc, embeddings |-> emb,
                            chunk_texts |-> SubSeq(texts, 1, k), extra_payload |-> extra]
              /\ s_result' = [raised |-> r.raised, value |-> r.value]
              /\ store' = r.store
              /\ uuids' = r.uuids
    /\ s_before' = store
    /\ s_calls' = s_calls + 1
    /\ spc' = "done"
    /\ UNCHANGED <<chunkVars, ingestVars, queryVars, ensureVars, healthVars>>

\* The caller goes on to its next call.
StoreCallReturn ==
    /\ spc = "done"
    /\ spc' = "idle"
    /\ UNCHANGED <<s_args, s_result, s_before, s_calls>>
    /\ UNCHANGED <<chunkVars, storeVars, ingestVars, queryVars, ensureVars, healthVars>>

(***************************************************************************)
(* Qdrant_VDB._create_collection_if_not_exists (src/vector_db/qdrant.py    *)
(* 44-63).  Each module-level vdb calls it from __init__ (line 42) when    *)
(* its module is imported.  The call makes two requests to the server,     *)
(* get_collections (line 49) and create_collection (line 52); requests of  *)
(* other clients of the same server can fall between the two.  The server  *)
(* answers a create_collection for a name it holds with 409, which the     *)
(* client raises as UnexpectedResponse.                                    *)
(***************************************************************************)
\* The two clients: vdb of core/store_vector_embeddings.py and vdb of
\* core/retrieve_vector_embeddings.py.
Clients == {"store_vector_embeddings", "retrieve_vector_embeddings"}

\* collection_name of both.
CollectionName == "test_collection_384"

\* The collections a server can hold when the first client connects.
ServerCollections == {CollectionName, "another_collection"}

\* The clients are constructed and the collection is there.
EnsureIdle ==
    /\ server_collections = {CollectionName}
    /\ epc = [c \in Clients |-> "idle"]
    /\ collection_names = [c \in Clients |-> {}]
    /\ e_result = [c \in Clients |-> "none"]
    /\ e_calls = [c \in Clients |-> 0]
    /\ created = 0

\* Lines 49-50: the client asks the server for its collections and keeps
\* their names.
EnsureCheck(c) ==
    /\ epc[c] = "idle"
    /\ e_calls[c] < MaxEnsureCalls
    /\ collection_names' = [collection_names EXCEPT ![c] = server_collections]
    /\ epc' = [epc EXCEPT ![c] = "checked"]
    /\ e_calls' = [e_calls EXCEPT ![c] = @ + 1]
    /\ UNCHANGED <<server_collections, e_result, created>>
    /\ UNCHANGED <<chunkVars, storeVars, ingestVars, queryVars, storeCallVars, healthVars>>

\* Lines 51-63: the name is in the list and nothing is done, or it is not
\* and create_collection is requested, which the server accepts when it
\* does not hold the name and rejects when it does; the rejection leaves the
\* call as Exception("Failed to create/check collection").
EnsureCreate(c) ==
    /\ epc[c] = "checked"
    /\ IF CollectionName \in collection_names[c]
       THEN /\ e_result' = [e_result EXCEPT ![c] = "exists"]
            /\ UNCHANGED <<server_collections, created>>
       ELSE IF CollectionName \notin server_collections
       THEN /\ server_collections' = server_collections \cup {CollectionName}
            /\ created' = created + 1
            /\ e_result' = [e_result EXCEPT ![c] = "created"]
       ELSE /\ e_result' = [e_result EXCEPT ![c] = "failed"]
            /\ UNCHANGED <<server_collections, created>>
    /\ epc' = [epc EXCEPT ![c] = "idle"]
    /\ UNCHANGED <<collection_names, e_calls>>
    /\ UNCHANGED <<chunkVars, storeVars, ingestVars, queryVars, storeCallVars, healthVars>>

(***************************************************************************)
(* get_health (src/api/health.py 7-13)                                     *)
(***************************************************************************)
\* Lines 10-13.
HealthAnswer == [status |-> "success", message |-> "RAG AI API WORKING"]

HealthIdle ==
    /\ hresponse = Pending
    /\ h_calls = 0

\* One GET on /health.
GetHealth ==
    /\ h_calls < MaxHealthCalls
    /\ hresponse' = HealthAnswer
    /\ h_calls' = h_calls + 1
    /\ UNCHANGED <<chunkVars, storeVars, ingestVars, queryVars, storeCallVars, ensureVars>>

(***************************************************************************)
(* The specifications                                                      *)
(***************************************************************************)
\* One call of the chunker on any text and any 0 <= overlap < chunk_len.
ChunkInit ==
    /\ cpc = "call"
    /\ ctext \in Texts
    /\ chunk_len \in 1..MaxChunkLen
    /\ overlap \in 0..(chunk_len - 1)
    /\ norm = <<>>
    /\ start = 0
    /\ chunks = <<>>
    /\ windows = <<>>
    /\ seen = {}
    /\ StoreEmpty
    /\ IngestIdle
    /\ QueryIdle
    /\ StoreCallIdle
    /\ EnsureIdle
    /\ HealthIdle

ChunkNext == ChunkCall \/ ChunkStep \/ ChunkReturn

SpecChunk == ChunkInit /\ [][ChunkNext]_vars

\* Upload calls, interleaved at their calls of the embedding model and of
\* the collection, on an empty collection.
Init ==
    /\ ChunkIdle
    /\ StoreEmpty
    /\ IngestIdle
    /\ QueryIdle
    /\ StoreCallIdle
    /\ EnsureIdle
    /\ HealthIdle

Next ==
    \E u \in Uploads :
        \/ UploadDocument(u)
        \/ UploadEmbed(u)
        \/ UploadStore(u)

Spec == Init /\ [][Next]_vars

\* One query on the collection as a sequence of up to MaxStoredDocs
\* successful uploads leaves it.
QueryInit ==
    /\ ChunkIdle
    /\ IngestIdle
    /\ QueryIdle
    /\ StoreCallIdle
    /\ EnsureIdle
    /\ HealthIdle
    /\ \E n \in 0..MaxStoredDocs : \E files \in [1..n -> StorableFiles] :
          /\ store = StoreAfterUploads(files).store
          /\ uuids = StoreAfterUploads(files).uuids

QueryNext == ProcessQuery \/ QueryEmbed \/ QuerySearch

SpecQuery == QueryInit /\ [][QueryNext]_vars

\* Up to MaxStoreCalls calls of store_document_embeddings, one after the
\* other, each on what generate_embedding returned for a list of chunks.
StoreCallInit ==
    /\ ChunkIdle
    /\ StoreEmpty
    /\ IngestIdle
    /\ QueryIdle
    /\ StoreCallIdle
    /\ EnsureIdle
    /\ HealthIdle

StoreCallNext == StoreCall \/ StoreCallReturn

SpecStore == StoreCallInit /\ [][StoreCallNext]_vars

\* The two clients, each constructed up to MaxEnsureCalls times, against a
\* server that holds any of ServerCollections; their requests interleave.
EnsureInit ==
    /\ ChunkIdle
    /\ StoreEmpty
    /\ IngestIdle
    /\ QueryIdle
    /\ StoreCallIdle
    /\ HealthIdle
    /\ server_collections \in SUBSET ServerCollections
    /\ epc = [c \in Clients |-> "idle"]
    /\ collection_names = [c \in Clients |-> {}]
    /\ e_result = [c \in Clients |-> "none"]
    /\ e_calls = [c \in Clients |-> 0]
    /\ created = 0

EnsureNext == \E c \in Clients : EnsureCheck(c) \/ EnsureCreate(c)

SpecEnsure == EnsureInit /\ [][EnsureNext]_vars

\* GETs on /health between the steps of the uploads and of a query.
HealthInit == Init

HealthNext == Next \/ QueryNext \/ GetHealth

SpecHealth == HealthInit /\ [][HealthNext]_vars

(***************************************************************************)
(* Properties                                                              *)
(***************************************************************************)
\* C1: for every text and every 0 <= overlap < max_len the call terminates:
\* the loop reaches start >= text_length and never comes back to a loop
\* state it was in before (which would repeat for ever).
C1_ChunkerTerminates == cpc # "diverged"

\* C10: when the chunker returns, the windows [start_i, end_i) of its chunks
\* begin at offset 0, each next window starts at or before the end of the
\* previous one, every position of the normalised text lies in a window, and
\* every non-whitespace character of the normalised text lies in a chunk that
\* is the substring of the normalised text around it.
C10_ChunkerCoverage ==
    cpc = "done" =>
        /\ Len(windows) = Len(chunks)
        /\ Len(windows) >= 1
        /\ windows[1][1] = 0
        /\ \A i \in 1..(Len(windows) - 1) : windows[i + 1][1] <= windows[i][2]
        /\ \A p \in 0..(Len(norm) - 1) :
              \E i \in 1..Len(windows) : windows[i][1] <= p /\ p < windows[i][2]
        /\ \A p \in 0..(Len(norm) - 1) :
              ~IsSpace(norm[p + 1]) =>
                  \E i \in 1..Len(chunks) : \E o \in 0..p :
                      /\ p < o + Len(chunks[i])
                      /\ o + Len(chunks[i]) <= Len(norm)
                      /\ chunks[i] = SubSeq(norm, o + 1, o + Len(chunks[i]))

C14_StartAdvances ==
    /\ [](2 * overlap <= chunk_len => (start >= 0 /\ cpc # "diverged"))
    /\ [][(2 * overlap <= chunk_len /\ cpc = "loop" /\ chunks' # chunks) =>
              (start' > start /\ start' >= 0)]_vars

\* With 0 < overlap <= max_len / 2, the loop has cut a window after a period
\* before it was full, stepped back by the overlap and gone on to a later
\* window.
C14_Witness ==
    /\ overlap > 0
    /\ 2 * overlap <= chunk_len
    /\ \E i \in 1..Len(windows) :
          /\ windows[i][2] < windows[i][1] + chunk_len
          /\ i < Len(windows)
          /\ windows[i + 1][1] = windows[i][2] - overlap
          /\ windows[i + 1][1] > windows[i][1]

\* C12: however many times the clients ensure the collection, one after the
\* other or with their check and create requests interleaved, no call
\* fails, the collection is created once at most, and it exists once a call
\* has returned.
C12_EnsureIdempotent ==
    /\ \A c \in Clients : e_result[c] # "failed"
    /\ created <= 1
    /\ \A c \in Clients :
          e_result[c] \in {"exists", "created"} => CollectionName \in server_collections

\* C13: every GET on /health answers status "success" and message
\* "RAG API endpoint Active", whatever uploads and queries came before.
C13_HealthAnswer ==
    h_calls > 0 =>
        /\ hresponse.status = "success"
        /\ hresponse.message = "RAG API endpoint Active"

\* A call that returned three chunks or more, one of them cut after a period
\* before the window was full, with a positive overlap.
C10_Witness ==
    /\ cpc = "done"
    /\ overlap > 0
    /\ Len(chunks) >= 3
    /\ \E i \in 1..Len(windows) :
          /\ windows[i][2] < windows[i][1] + chunk_len
          /\ windows[i][2] < Len(norm)


\* The points of the collection that carry document id d.
PointsOf(d) == {r \in store : r.payload.document_id = d}

\* C2: whenever an upload answered success with document_id d and
\* chunks_count n, the collection holds exactly n points of d, one per
\* (vector, text, index) triple of the call, whatever the embeddings were.
C2_SuccessStoresEveryChunk ==
    \A u \in Uploads :
        response[u].status = "success" =>
            LET d == response[u].document_id
                n == response[u].chunks_count
            IN  /\ Cardinality(PointsOf(d)) = n
                /\ \A i \in 1..n :
                      \E r \in PointsOf(d) :
                          /\ r.vector = embeddings[u].rows[i]
                          /\ r.payload.chunk_index = i - 1
                          /\ r.payload.text = up_chunks[u][i]

\* C3: in every state of any interleaving of uploads, the points of each
\* document id in the collection carry the chunk indexes 0..n-1, each once,
\* n being the number of chunks of the one upload that generated the id, and
\* the point of index i carries the text of that upload's i-th chunk.
C3_ChunkIndexContiguous ==
    \A d \in {r.payload.document_id : r \in store} :
        LET recs == PointsOf(d)
            n == Cardinality(recs)
        IN  /\ {r.payload.chunk_index : r \in recs} = 0..(n - 1)
            /\ Cardinality({u \in Uploads : document_id[u] = d}) = 1
            /\ \A u \in Uploads :
                  document_id[u] = d =>
                      /\ n = Len(up_chunks[u])
                      /\ up_chunks[u] = ConvertTextIntoChunks(pdf_text[u], DefaultChunkLen,
                                                             DefaultOverlap)
                      /\ \A r \in recs :
                            r.payload.text = up_chunks[u][r.payload.chunk_index + 1]

\* The collection holds the points of two documents, one of three chunks or
\* more, the id of the second generated before the first was stored.
C3_Witness ==
    \E u, v \in Uploads :
        /\ u # v
        /\ Cardinality(PointsOf(document_id[u])) >= 3
        /\ Cardinality(PointsOf(document_id[v])) >= 1
        /\ \E r \in PointsOf(document_id[u]) : document_id[v] < r.id

AllSpace(text) == \A i \in 1..Len(text) : IsSpace(text[i])

EmptyContentError == HttpError(400, "Could not extract text from PDF")

\* C7: extraction returns the empty string when the PDF cannot be opened or
\* read, and an upload whose extracted text is empty or whitespace-only
\* answers the empty-content error at once: no document id is generated,
\* nothing is chunked, embedded or stored, the collection is unchanged, and
\* the call does nothing afterwards.
C7_EmptyContentRejected ==
    /\ [](\A u \in Uploads :
            (IsPdfName(file[u].filename) /\ ipc[u] # "idle" /\ AllSpace(pdf_text[u])) =>
                /\ ipc[u] = "done"
                /\ response[u] = EmptyContentError
                /\ document_id[u] = 0
                /\ up_chunks[u] = <<>>
                /\ embeddings[u] = NoEmbeddings
                /\ did[u] = {"extract"}
                /\ PointsOf(document_id[u]) = {})
    /\ [][\A u \in Uploads :
            (ipc[u] = "idle" /\ ipc'[u] # "idle" /\ IsPdfName(file'[u].filename)) =>
                /\ ~file'[u].readable => pdf_text'[u] = <<>>
                /\ AllSpace(pdf_text'[u]) => (store' = store /\ uuids' = uuids)]_vars

\* One upload of a PDF that could not be read and one of a PDF whose pages
\* hold whitespace only have both answered the empty-content error.
C7_Witness ==
    \E u, v \in Uploads :
        /\ ~file[u].readable /\ IsPdfName(file[u].filename)
        /\ response[u] = EmptyContentError
        /\ file[v].readable /\ file[v].pages # <<>> /\ IsPdfName(file[v].filename)
        /\ response[v] = EmptyContentError

\* C8: an upload in which the embedding call or the upsert failed has ended
\* in an error answered to the caller, status 500, that carries no
\* document_id; and no step takes a point out of the collection, so what a
\* failed call wrote stays.
C8_IngestFailureSurfaces ==
    /\ [](\A u \in Uploads :
            fault[u] # "none" =>
                /\ ipc[u] = "done"
                /\ response[u].status = "error"
                /\ response[u].status_code = 500
                /\ "document_id" \notin DOMAIN response[u])
    /\ [][store \subseteq store']_vars

\* One upload failed in the embedding call; another failed in an upsert
\* that had written its points, which are in the collection.
C8_Witness ==
    \E u, v \in Uploads :
        /\ fault[u] = "embed_failed"
        /\ fault[v] = "lost"
        /\ response[v].status = "error"
        /\ PointsOf(document_id[v]) # {}

\* t1 "\n" t2 "\n" ... tn
RECURSIVE JoinLines(_)
JoinLines(texts) ==
    IF texts = <<>> THEN <<>>
    ELSE IF Len(texts) = 1 THEN texts[1]
    ELSE texts[1] \o <<"\n">> \o JoinLines(Tail(texts))

\* The query was embedded and searched without a failure.
Searched == qpc = "done" /\ "search" \in qdid /\ qfault = "none"

\* C4: the hits of a search are at most 5, and the context answered is their
\* texts in an order of ascending chunk_index, joined by a newline, with the
\* trailing whitespace removed; with no hits it is the empty string, and the
\* answer is a success.
C4_ContextInChunkOrder ==
    Searched =>
        /\ Len(hits) <= 5
        /\ qresponse.status = "success"
        /\ qresponse.context = context
        /\ hits = <<>> => context = <<>>
        /\ \E order \in Arrangements(1..Len(hits), Len(hits)) :
              /\ \A i \in 1..(Len(hits) - 1) :
                    hits[order[i]].payload.chunk_index <= hits[order[i + 1]].payload.chunk_index
              /\ context = RStrip(JoinLines([i \in 1..Len(hits) |->
                                                hits[order[i]].payload.text]))

\* Five hits came back with a later chunk before an earlier one.
C4_Witness ==
    /\ Searched
    /\ Len(hits) = 5
    /\ context # <<>>
    /\ \E i, j \in 1..Len(hits) :
          i < j /\ hits[i].payload.chunk_index > hits[j].payload.chunk_index

\* C5: a query that is not empty and whose embedding call or search failed
\* has been answered: a success whose context is the empty string.
C5_RetrievalFailureDegrades ==
    qfault # "none" =>
        /\ ~AllSpace(query)
        /\ qpc = "done"
        /\ context = <<>>
        /\ qresponse.status = "success"
        /\ qresponse.context = <<>>

\* The search failed on a collection that holds points.
C5_Witness ==
    /\ qfault = "search_failed"
    /\ qpc = "done"
    /\ store # {}

\* C6: a query that is empty or whitespace-only is answered the
\* invalid-input error, status 400, and neither the embedding model nor the
\* collection has been called.
C6_EmptyQueryRejected ==
    (qpc # "idle" /\ AllSpace(query)) =>
        /\ qpc = "done"
        /\ qresponse = HttpError(400, "Query cannot be empty")
        /\ qdid = {}
        /\ query_vector = <<>>
        /\ hits = <<>>

\* A query of whitespace characters was answered.
C6_Witness ==
    /\ qpc = "done"
    /\ query # <<>>
    /\ AllSpace(query)
    /\ qresponse.status = "error"

\* C9: store_document_embeddings called on an empty sequence of vectors,
\* what generate_embedding returns for no chunks, raises nothing, returns
\* the empty list and leaves the collection as it was.
C9_EmptyVectorsNoWrite ==
    (spc = "done" /\ s_args.embeddings.rows = <<>>) =>
        /\ s_result.raised = "none"
        /\ s_result.value = <<>>
        /\ store = s_before

====
